---- MODULE Spec2Model ----
(***************************************************************************)
(* The species-distribution KDE notebook (species.ipynb) as a state        *)
(* machine: one action per statement group of its code cells, the numpy    *)
(* array operations it uses as operators.  Real numbers are fixed-point,   *)
(* in units of 1/10000 (degrees before the conversion, radians after it).  *)
(***************************************************************************)
EXTENDS Integers, Sequences, FiniteSets, TLC

VARIABLES pc, data, Xtrain, ytrain, xgrid, ygrid, X, Y, land_reference,
          land_mask, xy, fig, layout, i, kde, scores, heap, Z, published,
          mask_case

vars == <<pc, data, Xtrain, ytrain, xgrid, ygrid, X, Y, land_reference,
          land_mask, xy, fig, layout, i, kde, scores, heap, Z, published,
          mask_case>>

(* ------------------------------ bounds -------------------------------- *)
\* most occurrence records in the fetched data
MaxRec == 2
\* largest native grid (rows, columns); the smallest is two less / one less
MaxNy == 7
MaxNx == 6
\* land/ocean patterns of the coverage raster: seeds 0..MaxSeed
MaxSeed == 15
\* families of values the estimator may return: shifts 0..MaxShift
MaxShift == 2
\* strides tried on the mask construction taken alone
MaxStride == 5

(* ------------------------- program constants -------------------------- *)
Stride == 5
Sentinel == -9999
NSpecies == 2
\* bandwidth=0.04, in hundredths
Bandwidth == 4
Unit == 100 * 100
\* np.pi / 180. = 0.0175 in units of 1/10000
PiOver180 == 175
NegInf == 0 - 1000000

(* ------------------------------ text ---------------------------------- *)
micro == <<"m", "i", "c", "r", "o">>
bradypus_variegatus_0 ==
    <<"b", "r", "a", "d", "y", "p", "u", "s", "_", "v", "a", "r", "i", "e",
      "g", "a", "t", "u", "s", "_", "0">>
microryzomys_minutus_0 ==
    <<"m", "i", "c", "r", "o", "r", "y", "z", "o", "m", "y", "s", "_", "m",
      "i", "n", "u", "t", "u", "s", "_", "0">>
microtus_oeconomus_0 ==
    <<"m", "i", "c", "r", "o", "t", "u", "s", "_", "o", "e", "c", "o", "n",
      "o", "m", "u", "s", "_", "0">>
choloepus_hoffmanni_0 ==
    <<"c", "h", "o", "l", "o", "e", "p", "u", "s", "_", "h", "o", "f", "f",
      "m", "a", "n", "n", "i", "_", "0">>
\* the labels a record of data['train']['species'] may carry
Labels ==
    {bradypus_variegatus_0, microryzomys_minutus_0, microtus_oeconomus_0,
     choloepus_hoffmanni_0}

\* str.startswith
StartsWith(d, prefix) ==
    Len(d) >= Len(prefix) /\ SubSeq(d, 1, Len(prefix)) = prefix

(* --------------------------- numpy arrays ----------------------------- *)
\* a[::s]
Subsample(a, s) ==
    [k \in 1..((Len(a) + s - 1) \div s) |-> a[(k - 1) * s + 1]]

\* a[::-1]
Reverse(a) == [k \in 1..Len(a) |-> a[Len(a) + 1 - k]]

\* m[::s, ::s]
Subsample2D(m, s) ==
    LET rows == Subsample(m, s)
    IN  [r \in 1..Len(rows) |-> Subsample(rows[r], s)]

NRows(m) == Len(m)
NCols(m) == IF Len(m) = 0 THEN 0 ELSE Len(m[1])

\* m.ravel(), C order
Ravel(m) ==
    [p \in 1..(NRows(m) * NCols(m)) |->
        m[((p - 1) \div NCols(m)) + 1][((p - 1) % NCols(m)) + 1]]

\* flat.reshape(shape)
Reshape(flat, rows, cols) ==
    [r \in 1..rows |-> [c \in 1..cols |-> flat[(r - 1) * cols + c]]]

\* np.meshgrid(x, y): both of shape (len(y), len(x))
MeshX(x, y) == [r \in 1..Len(y) |-> x]
MeshY(x, y) == [r \in 1..Len(y) |-> [c \in 1..Len(x) |-> y[r]]]

\* np.vstack([a, b]).T
VStackT(a, b) == [k \in 1..Len(a) |-> <<a[k], b[k]>>]

\* a[mask] for a boolean mask: the rows at the true entries, in order
RECURSIVE BoolIndexFrom(_, _, _)
BoolIndexFrom(a, mask, p) ==
    IF p > Len(mask) THEN <<>>
    ELSE IF mask[p] THEN <<a[p]>> \o BoolIndexFrom(a, mask, p + 1)
    ELSE BoolIndexFrom(a, mask, p + 1)

BoolIndex(a, mask) == BoolIndexFrom(a, mask, 1)

\* z[mask] = vals: the values go to the true entries, in order
RECURSIVE MaskAssignFrom(_, _, _, _, _)
MaskAssignFrom(z, mask, vals, p, k) ==
    IF p > Len(z) THEN <<>>
    ELSE IF mask[p]
         THEN <<vals[k]>> \o MaskAssignFrom(z, mask, vals, p + 1, k + 1)
         ELSE <<z[p]>> \o MaskAssignFrom(z, mask, vals, p + 1, k)

MaskAssign(z, mask, vals) == MaskAssignFrom(z, mask, vals, 1, 1)

\* the buffer left unzeroed (np.ones, or np.empty holding old memory)
ZerosUncleared(n) == [p \in 1..n |-> 1]

\* np.zeros(n)
Zeros(n) == [p \in 1..n |-> 0]

\* a.max() of non-negative values
Max(a) ==
    IF Len(a) = 0 THEN 0
    ELSE CHOOSE v \in {a[p] : p \in 1..Len(a)} :
            \A q \in 1..Len(a) : a[q] <= v

\* a *= np.pi / 180.
MulPiOver180(v) == (v * PiOver180) \div Unit

ToRadians(a) ==
    [k \in 1..Len(a) |-> <<MulPiOver180(a[k][1]), MulPiOver180(a[k][2])>>]

\* np.exp on the log-densities the estimator returns
Exp(l) ==
    CASE l = NegInf -> 0
      [] l = -1 -> 3679
      [] l = 0 -> 10000
      [] l = 1 -> 27183

(* ------------------------------ inputs -------------------------------- *)
Pow2(n) == IF n = 0 THEN 1 ELSE IF n = 1 THEN 2 ELSE IF n = 2 THEN 4 ELSE 8

\* a coverage cell: the sentinel (ocean) or an elevation (land)
CellValue(seed, j, c) ==
    IF (seed \div Pow2((j + 2 * c) % 4)) % 2 = 1 THEN 10 ELSE Sentinel

CoverageOf(seed, ny, nx) ==
    [j \in 1..ny |-> [c \in 1..nx |-> CellValue(seed, j, c)]]

Example44 ==
    << <<-9999, -9999, 10, 10>>, <<-9999, 10, 10, 10>>,
       <<10, 10, 10, -9999>>, <<10, 10, -9999, -9999>> >>

\* a raster with values just below, at and just above the sentinel
NearSentinel44 ==
    << <<-10000, -9999, -9998, 0>>, <<-9998, -10000, 10, -9999>>,
       <<0, -9998, -9999, -10000>>, <<-9999, 10, -10000, -9998>> >>

\* latitude and longitude of the k-th record, whole degrees
LatOf(k) == 10 * k - 15
LongOf(k) == 0 - 60 - 10 * k

SpeciesSeqs == UNION {[1..n -> Labels] : n \in 0..MaxRec}

\* what fetch_species_distributions() may return
Bunch(species, ny, nx, cov) ==
    [species |-> species,
     dd_lat |-> [k \in 1..Len(species) |-> LatOf(k) * Unit],
     dd_long |-> [k \in 1..Len(species) |-> LongOf(k) * Unit],
     Ny |-> ny, Nx |-> nx,
     x_left_lower_corner |-> 0 - 94, y_left_lower_corner |-> 0 - 56,
     coverage6 |-> cov]

Bunches ==
    {Bunch(s, ny, nx, CoverageOf(seed, ny, nx)) :
        s \in SpeciesSeqs, ny \in (MaxNy - 2)..MaxNy,
        nx \in (MaxNx - 1)..MaxNx, seed \in 0..MaxSeed}

NoData == Bunch(<<>>, 0, 0, <<>>)

\* construct_grids(data): ascending axes of the native resolution (1 degree)
ConstructX(d) == [k \in 1..d.Nx |-> (d.x_left_lower_corner + k - 1) * Unit]
ConstructY(d) == [k \in 1..d.Ny |-> (d.y_left_lower_corner + k - 1) * Unit]

(* ----------------------- the notebook's values ------------------------ *)
\* Xtrain before the conversion
TrainDegrees(d) == VStackT(d.dd_lat, d.dd_long)

\* d.decode('ascii').startswith('micro'), as an int
SpeciesIndex(d) == IF StartsWith(d, micro) THEN 1 ELSE 0

YTrain(d) == [k \in 1..Len(d.species) |-> SpeciesIndex(d.species[k])]

\* xgrid[::5] and ygrid[::5][::-1]
XAxis(xg, s) == Subsample(xg, s)
YAxis(yg, s) == Reverse(Subsample(yg, s))

\* data.coverages[6][::5, ::5]
LandReference(cov, s) == Subsample2D(cov, s)

\* the comparison made non-strict
IsLandNonStrict(v) == v >= Sentinel

\* (land_reference > -9999).ravel()
IsLand(v) == v > Sentinel

LandMask(lr) ==
    Ravel([r \in 1..NRows(lr) |-> [c \in 1..NCols(lr) |-> IsLand(lr[r][c])]])

\* the two coordinate columns stacked the other way round
LatticeLonLat(xm, ym) == VStackT(Ravel(xm), Ravel(ym))

\* np.vstack([Y.ravel(), X.ravel()]).T
Lattice(xm, ym) == VStackT(Ravel(ym), Ravel(xm))

\* the query points left in degrees
QueryPointsDegrees(xm, ym, mask) ==
    BoolIndex(VStackT(Ravel(ym), Ravel(xm)), mask)

\* xy = xy[land_mask]; xy *= np.pi / 180.
QueryPoints(xm, ym, mask) == ToRadians(BoolIndex(Lattice(xm, ym), mask))

\* Xtrain[ytrain == i]
TrainRows(xt, yt, s) == BoolIndex(xt, [k \in 1..Len(yt) |-> yt[k] = s])

\* what kde.score_samples(q) may return: one log-density per query point
LogVals == <<NegInf, -1, 0, 1>>
ScoreChoices(n) ==
    {[k \in 1..n |-> LogVals[((k + s) % 4) + 1]] : s \in 0..MaxShift}

\* one buffer allocated once and refilled by every iteration
NewArrayReused(h, old) == IF old = 0 THEN Len(h) + 1 ELSE old

\* np.zeros allocates a new array: its place on the heap (old: the array Z was
\* bound to, which stays where it is)
NewArray(h, old) == Len(h) + 1

\* every trace appended to the first panel
PanelFirst(s) == 1

\* the subplot column of append_trace(trace, 1, i+1)
PanelOf(s) == s + 1

NoKde == [bandwidth |-> 0, metric |-> "", kernel |-> "", algorithm |-> "",
          fit_X |-> <<>>, fitted |-> FALSE]

NoArray == [base |-> 0, rows |-> 0, cols |-> 0]

\* the 2-D array a name bound to a reshaped view stands for
View(h, z) == Reshape(h[z.base], z.rows, z.cols)

NoCase == [data |-> NoData, stride |-> 1, state |-> "off", mask |-> <<>>,
           query |-> <<>>, ylen |-> 0, xlen |-> 0]

Init ==
    /\ pc = "fetch"
    /\ data = NoData
    /\ Xtrain = <<>> /\ ytrain = <<>>
    /\ xgrid = <<>> /\ ygrid = <<>>
    /\ X = <<>> /\ Y = <<>>
    /\ land_reference = <<>> /\ land_mask = <<>>
    /\ xy = <<>>
    /\ fig = <<>>
    /\ layout = [made |-> FALSE, hidden |-> {}, hovermode |-> ""]
    /\ i = 0
    /\ kde = NoKde
    /\ scores = <<>>
    /\ heap = <<>>
    /\ Z = NoArray
    /\ published = [sent |-> FALSE, traces |-> <<>>]
    /\ mask_case = NoCase

(* --------------------- cell 3: the calculations ----------------------- *)
\* data = fetch_species_distributions()
Fetch ==
    /\ pc = "fetch"
    /\ \E d \in Bunches : data' = d
    /\ pc' = "train"
    /\ UNCHANGED <<Xtrain, ytrain, xgrid, ygrid, X, Y, land_reference,
                   land_mask, xy, fig, layout, i, kde, scores, heap, Z,
                   published, mask_case>>

\* Xtrain = np.vstack([...]).T; ytrain = ...; Xtrain *= np.pi / 180.
LoadTrain ==
    /\ pc = "train"
    /\ Xtrain' = ToRadians(TrainDegrees(data))
    /\ ytrain' = YTrain(data)
    /\ pc' = "grid"
    /\ UNCHANGED <<data, xgrid, ygrid, X, Y, land_reference, land_mask, xy,
                   fig, layout, i, kde, scores, heap, Z, published,
                   mask_case>>

\* xgrid, ygrid = construct_grids(data); X, Y = np.meshgrid(...);
\* land_reference = ...; land_mask = ...
BuildGrid ==
    /\ pc = "grid"
    /\ xgrid' = ConstructX(data)
    /\ ygrid' = ConstructY(data)
    /\ X' = MeshX(XAxis(xgrid', Stride), YAxis(ygrid', Stride))
    /\ Y' = MeshY(XAxis(xgrid', Stride), YAxis(ygrid', Stride))
    /\ land_reference' = LandReference(data.coverage6, Stride)
    /\ land_mask' = LandMask(land_reference')
    /\ pc' = "query"
    /\ UNCHANGED <<data, Xtrain, ytrain, xy, fig, layout, i, kde, scores,
                   heap, Z, published, mask_case>>

\* xy = np.vstack([Y.ravel(), X.ravel()]).T; xy = xy[land_mask]; xy *= ...
BuildQuery ==
    /\ pc = "query"
    /\ xy' = QueryPoints(X, Y, land_mask)
    /\ pc' = "subplots"
    /\ UNCHANGED <<data, Xtrain, ytrain, xgrid, ygrid, X, Y, land_reference,
                   land_mask, fig, layout, i, kde, scores, heap, Z,
                   published, mask_case>>

(* ------------------------ cell 4: the figure -------------------------- *)
\* fig = tools.make_subplots(rows=1, cols=2, ...)
MakeSubplots ==
    /\ pc = "subplots"
    /\ fig' = <<>>
    /\ layout' = [made |-> TRUE, hidden |-> {}, hovermode |-> ""]
    /\ i' = 0
    /\ pc' = "kde"
    /\ UNCHANGED <<data, Xtrain, ytrain, xgrid, ygrid, X, Y, land_reference,
                   land_mask, xy, kde, scores, heap, Z, published,
                   mask_case>>

(* ------------------- cell 5: for i in range(2) ------------------------ *)
\* kde = KernelDensity(bandwidth=0.04, metric='haversine', ...)
NewKde ==
    /\ pc = "kde"
    /\ kde' = [bandwidth |-> Bandwidth, metric |-> "haversine",
               kernel |-> "gaussian", algorithm |-> "ball_tree",
               fit_X |-> <<>>, fitted |-> FALSE]
    /\ pc' = "fit"
    /\ UNCHANGED <<data, Xtrain, ytrain, xgrid, ygrid, X, Y, land_reference,
                   land_mask, xy, fig, layout, i, scores, heap, Z,
                   published, mask_case>>

\* kde.fit(Xtrain[ytrain == i]).  The notebook checks nothing itself; what
\* the library does with no sample at all is not the notebook's code, so
\* both outcomes are kept: it raises, or it returns.
Fit ==
    /\ pc = "fit"
    /\ LET rows == TrainRows(Xtrain, ytrain, i)
       IN  \/ /\ kde' = [kde EXCEPT !.fit_X = rows, !.fitted = TRUE]
              /\ pc' = "evaluate"
           \/ /\ Len(rows) = 0
              /\ kde' = kde
              /\ pc' = "failed"
    /\ UNCHANGED <<data, Xtrain, ytrain, xgrid, ygrid, X, Y, land_reference,
                   land_mask, xy, fig, layout, i, scores, heap, Z,
                   published, mask_case>>

\* Z = np.zeros(land_mask.shape[0]);
\* Z[land_mask] = np.exp(kde.score_samples(xy)); Z = Z.reshape(X.shape)
Evaluate ==
    /\ pc = "evaluate"
    /\ \E sc \in ScoreChoices(Len(xy)) :
          LET id == NewArray(heap, Z.base)
              dens == [k \in 1..Len(sc) |-> Exp(sc[k])]
              filled == MaskAssign(Zeros(Len(land_mask)), land_mask, dens)
          IN  /\ scores' = sc
              /\ heap' = IF id = Len(heap) + 1 THEN Append(heap, filled)
                         ELSE [heap EXCEPT ![id] = filled]
              /\ Z' = [base |-> id, rows |-> NRows(X), cols |-> NCols(X)]
    /\ pc' = "trace1"
    /\ UNCHANGED <<data, Xtrain, ytrain, xgrid, ygrid, X, Y, land_reference,
                   land_mask, xy, fig, layout, i, kde, published, mask_case>>

\* trace1 = go.Contour(..., z=Z, ...); fig.append_trace(trace1, 1, i+1)
AppendDensity ==
    /\ pc = "trace1"
    /\ fig' = Append(fig, [coloring |-> "heatmap", zref |-> Z.base,
                           start |-> 0, end |-> Max(heap[Z.base]),
                           size |-> 25, col |-> PanelOf(i)])
    /\ pc' = "trace2"
    /\ UNCHANGED <<data, Xtrain, ytrain, xgrid, ygrid, X, Y, land_reference,
                   land_mask, xy, layout, i, kde, scores, heap, Z,
                   published, mask_case>>

\* trace2 = go.Contour(..., z=land_reference, ...);
\* fig.append_trace(trace2, 1, i+1); then the next i, or the loop ends.
\* zref 0 is land_reference, the view of the coverage.
AppendCoast ==
    /\ pc = "trace2"
    /\ fig' = Append(fig, [coloring |-> "lines", zref |-> 0,
                           start |-> Sentinel, end |-> Sentinel + 1,
                           size |-> 2, col |-> PanelOf(i)])
    /\ IF i + 1 < NSpecies
       THEN i' = i + 1 /\ pc' = "kde"
       ELSE i' = i /\ pc' = "layout"
    /\ UNCHANGED <<data, Xtrain, ytrain, xgrid, ygrid, X, Y, land_reference,
                   land_mask, xy, layout, kde, scores, heap, Z, published,
                   mask_case>>

(* ------------------- cell 6: layout and the sink ---------------------- *)
\* fig['layout'][y].update(...), fig['layout'][x].update(...) for 1 and 2;
\* fig['layout'].update(hovermode='closest')
UpdateLayout ==
    /\ pc = "layout"
    /\ layout' = [layout EXCEPT
                    !.hidden = {<<a, n>> : a \in {"xaxis", "yaxis"},
                                           n \in 1..2},
                    !.hovermode = "closest"]
    /\ pc' = "iplot"
    /\ UNCHANGED <<data, Xtrain, ytrain, xgrid, ygrid, X, Y, land_reference,
                   land_mask, xy, fig, i, kde, scores, heap, Z, published,
                   mask_case>>

\* py.iplot(fig)
IPlot ==
    /\ pc = "iplot"
    /\ published' = [sent |-> TRUE, traces |-> fig]
    /\ pc' = "done"
    /\ UNCHANGED <<data, Xtrain, ytrain, xgrid, ygrid, X, Y, land_reference,
                   land_mask, xy, fig, layout, i, kde, scores, heap, Z,
                   mask_case>>

Next ==
    \/ Fetch
    \/ LoadTrain
    \/ BuildGrid
    \/ BuildQuery
    \/ MakeSubplots
    \/ NewKde
    \/ Fit
    \/ Evaluate
    \/ AppendDensity
    \/ AppendCoast
    \/ UpdateLayout
    \/ IPlot

Spec == Init /\ [][Next]_vars

\* the cells run one statement after the other: a step that can run, runs
FairSpec == Spec /\ WF_vars(Next)

(* ------------- the mask construction taken alone, any stride ---------- *)
MaskCases ==
    {[NoCase EXCEPT !.data = d, !.stride = s, !.state = "input"] :
        d \in {Bunch(<<>>, 4, 4, Example44), Bunch(<<>>, 4, 4, NearSentinel44)}
              \cup {Bunch(<<>>, ny, nx, CoverageOf(seed, ny, nx)) :
                      ny \in (MaxNy - 2)..MaxNy, nx \in (MaxNx - 1)..MaxNx,
                      seed \in 0..MaxSeed},
        s \in 1..MaxStride}

MaskInit ==
    /\ pc = "fetch"
    /\ data = NoData
    /\ Xtrain = <<>> /\ ytrain = <<>>
    /\ xgrid = <<>> /\ ygrid = <<>>
    /\ X = <<>> /\ Y = <<>>
    /\ land_reference = <<>> /\ land_mask = <<>>
    /\ xy = <<>>
    /\ fig = <<>>
    /\ layout = [made |-> FALSE, hidden |-> {}, hovermode |-> ""]
    /\ i = 0
    /\ kde = NoKde
    /\ scores = <<>>
    /\ heap = <<>>
    /\ Z = NoArray
    /\ published = [sent |-> FALSE, traces |-> <<>>]
    /\ mask_case \in MaskCases

\* the grid, land_reference, land_mask and xy statements at stride s
MaskApply ==
    /\ mask_case.state = "input"
    /\ LET d == mask_case.data
           s == mask_case.stride
           xa == XAxis(ConstructX(d), s)
           ya == YAxis(ConstructY(d), s)
           mask == LandMask(LandReference(d.coverage6, s))
       IN  mask_case' = [mask_case EXCEPT
                           !.state = "done",
                           !.mask = mask,
                           !.query = QueryPoints(MeshX(xa, ya),
                                                 MeshY(xa, ya), mask),
                           !.ylen = Len(ya),
                           !.xlen = Len(xa)]
    /\ UNCHANGED <<pc, data, Xtrain, ytrain, xgrid, ygrid, X, Y,
                   land_reference, land_mask, xy, fig, layout, i, kde,
                   scores, heap, Z, published>>

MaskSpec == MaskInit /\ [][MaskApply]_vars

(* ============================ properties ============================== *)
\* how many of the first p mask entries are true
Rank(mask, p) == Cardinality({q \in 1..p : mask[q]})

RowOf(p, cols) == ((p - 1) \div cols) + 1
ColOf(p, cols) == ((p - 1) % cols) + 1

\* the radian value (units of 1/10000) of a whole number of degrees held
\* in units of 1/10000: 0.0175 per degree
InRadians(deg) == (deg \div 10000) * 175

DensityTraces(f) == {t \in 1..Len(f) : f[t].coloring = "heatmap"}

\* the model of iteration i has been fitted and the iteration is under way
FittedInIteration == kde.fitted /\ pc \in {"evaluate", "trace1", "trace2"}

\* C1: once a density field Z is built, every cell whose coverage value is
\* not greater than -9999 holds exactly 0, in Z and in every density field
\* attached to the figure, whatever the estimator returned.
C1_OceanCellsZero ==
    /\ Z.base # 0 =>
          \A r \in 1..Z.rows, c \in 1..Z.cols :
             land_reference[r][c] <= -9999 => View(heap, Z)[r][c] = 0
    /\ \A t \in DensityTraces(fig) :
          \A p \in 1..Len(land_mask) :
             ~land_mask[p] => heap[fig[t].zref][p] = 0

C1_Witness ==
    /\ Z.base # 0
    /\ \E r \in 1..Z.rows, c \in 1..Z.cols :
          land_reference[r][c] <= -9999
    /\ \E r \in 1..Z.rows, c \in 1..Z.cols : View(heap, Z)[r][c] > 0
    /\ i = 1

\* C2: there are as many query points as true mask entries, and the value
\* estimated for the k-th query point sits in the k-th land cell in
\* row-major order, the cell (r, c) whose lattice coordinates
\* (y-axis[r], x-axis[c]) are that query point's latitude and longitude.
C2_ScatterAligned ==
    Z.base # 0 =>
       /\ Len(xy) = Rank(land_mask, Len(land_mask))
       /\ Len(scores) = Len(xy)
       /\ \A p \in 1..Len(land_mask) :
             land_mask[p] =>
                LET k == Rank(land_mask, p)
                    r == RowOf(p, Z.cols)
                    c == ColOf(p, Z.cols)
                IN  /\ View(heap, Z)[r][c] = Exp(scores[k])
                    /\ xy[k][1] = InRadians(YAxis(ygrid, Stride)[r])
                    /\ xy[k][2] = InRadians(XAxis(xgrid, Stride)[c])

C2_Witness ==
    /\ Z.base # 0
    /\ Len(xy) >= 2
    /\ Z.rows >= 2 /\ Z.cols >= 2
    /\ ~land_mask[1]
    /\ scores[1] # scores[2]

\* the land mask statement, with n query points kept on the 4x4 example
LandMaskStatement(n) ==
    mask_case.state = "done" =>
       LET d == mask_case.data
           s == mask_case.stride
           rows == (d.Ny + s - 1) \div s
           cols == (d.Nx + s - 1) \div s
       IN  /\ mask_case.ylen = rows /\ mask_case.xlen = cols
           /\ Len(mask_case.mask) = mask_case.ylen * mask_case.xlen
           /\ \A r \in 0..(rows - 1), c \in 0..(cols - 1) :
                 mask_case.mask[r * cols + c + 1]
                    <=> (d.coverage6[r * s + 1][c * s + 1] > -9999)
           /\ Len(mask_case.query) =
                 Cardinality({p \in 1..(rows * cols) : mask_case.mask[p]})
           /\ (d.coverage6 = Example44 /\ s = 1) =>
                 /\ mask_case.mask =
                       <<FALSE, FALSE, TRUE, TRUE, FALSE, TRUE, TRUE, TRUE,
                         TRUE, TRUE, TRUE, FALSE, TRUE, TRUE, FALSE, FALSE>>
                 /\ Len(mask_case.query) = n

\* C3: for every raster and stride >= 1 the land mask is the row-major
\* flattening of the subsampled coverage, true exactly where the value is
\* strictly greater than -9999, of length (y-axis length) x (x-axis
\* length), and one query point is kept per true entry; the 4x4 example at
\* stride 1 gives the stated mask, which has 10 true entries: 10 query
\* points are kept.
C3_LandMask == LandMaskStatement(10)

\* C3 as stated: the same, with 9 query points kept on the 4x4 example.
C3_AsStated == LandMaskStatement(9)

C3_Witness ==
    /\ mask_case.state = "done"
    /\ mask_case.data.coverage6 = Example44
    /\ mask_case.stride = 1
    /\ Len(mask_case.query) = 10

\* the labels of the two species of the loop
SpeciesLabel == <<bradypus_variegatus_0, microryzomys_minutus_0>>

\* C4: the training set fitted in iteration i holds exactly the records
\* whose label equals the label of species i, and no record of another label.
C4_ExactLabelMatch ==
    FittedInIteration =>
       \A k \in 1..Len(data.species) :
          (\E j \in 1..Len(kde.fit_X) : kde.fit_X[j] = Xtrain[k])
             <=> data.species[k] = SpeciesLabel[i + 1]

\* C7: an iteration leaves every density field already attached to the
\* figure as it is, binds Z to an array no attached trace refers to, starts
\* from an unfitted model, and modifies none of the shared inputs.
C7_Independent ==
    [][/\ \A t \in DensityTraces(fig) :
             /\ fig'[t] = fig[t]
             /\ heap'[fig[t].zref] = heap[fig[t].zref]
       /\ pc = "evaluate" =>
             \A t \in DensityTraces(fig) : Z'.base # fig[t].zref
       /\ pc = "kde" => (~kde'.fitted /\ kde'.fit_X = <<>>)
       /\ pc \in {"kde", "fit", "evaluate", "trace1", "trace2"} =>
             UNCHANGED <<Xtrain, ytrain, xy, land_mask, land_reference>>
      ]_vars

C7_Witness ==
    /\ pc = "done"
    /\ Len(fig) = 4
    /\ fig[1].zref # fig[3].zref
    /\ heap[fig[1].zref] # heap[fig[3].zref]

\* C8: every coordinate that reaches the estimator is the radian value of
\* the degree value it came from, converted exactly once: the rows fitted
\* are those of the records of the iteration's species, and the query
\* points are the land lattice points, masked first and then converted.
C8_Radians ==
    /\ FittedInIteration =>
          /\ Len(kde.fit_X) =
                Cardinality({k \in 1..Len(ytrain) : ytrain[k] = i})
          /\ \A j \in 1..Len(kde.fit_X) :
                \E k \in 1..Len(data.species) :
                   /\ ytrain[k] = i
                   /\ kde.fit_X[j][1] = InRadians(data.dd_lat[k])
                   /\ kde.fit_X[j][2] = InRadians(data.dd_long[k])
    /\ Z.base # 0 =>
          /\ Len(xy) = Rank(land_mask, Len(land_mask))
          /\ \A p \in 1..Len(land_mask) :
                land_mask[p] =>
                   LET k == Rank(land_mask, p)
                   IN  /\ xy[k][1] =
                             InRadians(Y[RowOf(p, NCols(Y))][ColOf(p, NCols(Y))])
                       /\ xy[k][2] =
                             InRadians(X[RowOf(p, NCols(X))][ColOf(p, NCols(X))])

C8_Witness ==
    /\ FittedInIteration /\ Len(kde.fit_X) >= 1
    /\ pc = "trace1" /\ Len(xy) >= 1 /\ Len(xy) < Len(land_mask)
    /\ i = 1

\* the place of a statement in the run
Position(p, s) ==
    CASE p = "fetch" -> 0
      [] p = "train" -> 1
      [] p = "grid" -> 2
      [] p = "query" -> 3
      [] p = "subplots" -> 4
      [] p = "kde" -> 5 + 5 * s
      [] p = "fit" -> 6 + 5 * s
      [] p = "evaluate" -> 7 + 5 * s
      [] p = "trace1" -> 8 + 5 * s
      [] p = "trace2" -> 9 + 5 * s
      [] p = "layout" -> 15
      [] p = "iplot" -> 16
      [] p = "done" -> 17
      [] p = "failed" -> 18

FigureComplete(f) ==
    /\ Len(f) = 4
    /\ \A s \in 0..1 :
          /\ f[2 * s + 1].coloring = "heatmap" /\ f[2 * s + 1].col = s + 1
          /\ f[2 * s + 2].coloring = "lines" /\ f[2 * s + 2].col = s + 1
          /\ f[2 * s + 2].zref = 0

\* C9: the run only moves forward and ends; the figure reaches the sink only
\* when the run is done, and then panel i+1 holds exactly the density
\* contour of species i followed by the coastline contour: four traces.
C9_ForwardAndComplete ==
    /\ [](published.sent => (pc = "done" /\ FigureComplete(published.traces)))
    /\ [][Position(pc', i') > Position(pc, i)]_vars
    /\ <>(pc \in {"done", "failed"})

C9_Witness ==
    /\ pc = "done"
    /\ published.sent
    /\ Len(published.traces) = 4
    /\ layout.hovermode = "closest"

\* C10: mask row r, taken from coverage row 5r (the latitude
\* ygrid[n-1-5r], north first), refers to the latitude of y-axis row r, and
\* mask column c to the x-axis value xgrid[5c], for every native grid size.
C10_MaskGeoAligned ==
    pc \notin {"fetch", "train", "grid"} =>
       /\ \A r \in 1..NRows(land_reference) :
             Y[r][1] = ygrid[Len(ygrid) - Stride * (r - 1)]
       /\ \A c \in 1..NCols(land_reference) :
             X[1][c] = xgrid[Stride * (c - 1) + 1]

====
